---- MODULE Spec2Model ----
(***************************************************************************)
(* MarketV-Lookup: text normalisation, Jaccard similarity, cross matching  *)
(* and price statistics (src/utils/matching.ts, src/utils/math.ts), and    *)
(* the host component that runs the matcher behind a timer (src/App.tsx).  *)
(*                                                                         *)
(* Representation.                                                         *)
(*  - A text (a JavaScript string) is a sequence of one-character strings. *)
(*    A token is a text too.                                               *)
(*  - A number is a record [n, d]: the rational n/d in lowest terms with   *)
(*    d > 0, or, with d = 0, a non-finite IEEE value: n = 1 is +Infinity,  *)
(*    n = -1 is -Infinity, n = 0 is NaN.  Finite arithmetic on these is    *)
(*    exact.  The rounding of binary floating point is modelled where the  *)
(*    order of operations is in question: the sum and the mean of a price  *)
(*    list (sum64, avg64).                                                 *)
(***************************************************************************)
EXTENDS Integers, Sequences, FiniteSets, TLC

VARIABLES
    suppliers,            \* App state: SupplierProduct[]
    markets,              \* App state: MarketProduct[]
    matches,              \* App state: MatchResult[]
    confidenceThreshold,  \* App state: slider value
    activeTab,            \* App state: TabType
    isProcessing,         \* App state: overlay flag
    timers,               \* pending setTimeout callbacks, oldest first
    now,                  \* the clock Date.now() reads
    args,                 \* arguments of the library call under study
    ret,                  \* <<>> before the call returns, <<value>> after
    memo,                 \* ComparisonTable: the useMemo cell of viewRows
    run,                  \* one ingestion and matching run, loop by loop
    cleared               \* history: reset was the last of reset and performMatching

vars == <<suppliers, markets, matches, confidenceThreshold, activeTab,
          isProcessing, timers, now, args, ret, memo, run, cleared>>

hostVars == <<suppliers, markets, matches, confidenceThreshold, activeTab,
              isProcessing, timers, now, memo, cleared>>

Range(s) == {s[i] : i \in 1..Len(s)}

SeqsUpTo(S, k) == UNION {[1..m -> S] : m \in 0..k}

Reverse(s) == [i \in 1..Len(s) |-> s[Len(s) + 1 - i]]

(***************************************************************************)
(* Numbers                                                                 *)
(***************************************************************************)
Abs(x) == IF x < 0 THEN -x ELSE x

RECURSIVE GCD(_, _)
GCD(a, b) == IF b = 0 THEN a ELSE GCD(b, a % b)

\* the finite number n/d (d # 0), in lowest terms with a positive denominator
Rat(n, d) ==
    LET g == GCD(Abs(n), Abs(d))
        s == IF d < 0 THEN -1 ELSE 1
    IN  [n |-> (s * n) \div g, d |-> (s * d) \div g]

Num(k) == [n |-> k, d |-> 1]

NaN == [n |-> 0, d |-> 0]

PosInf == [n |-> 1, d |-> 0]

NegInf == [n |-> -1, d |-> 0]

IsNaN(x) == x.d = 0 /\ x.n = 0

IsInf(x) == x.d = 0 /\ x.n # 0

IsFinite(x) == x.d # 0

Sign(k) == IF k > 0 THEN 1 ELSE IF k < 0 THEN -1 ELSE 0

\* x + y
NumAdd(x, y) ==
    IF IsNaN(x) \/ IsNaN(y) THEN NaN
    ELSE IF IsInf(x) /\ IsInf(y) THEN (IF x.n = y.n THEN x ELSE NaN)
    ELSE IF IsInf(x) THEN x
    ELSE IF IsInf(y) THEN y
    ELSE Rat(x.n * y.d + y.n * x.d, x.d * y.d)

\* x - y
NumSub(x, y) == NumAdd(x, [n |-> -(y.n), d |-> y.d])

\* x * y
NumMul(x, y) ==
    IF IsNaN(x) \/ IsNaN(y) THEN NaN
    ELSE IF IsInf(x) \/ IsInf(y)
         THEN (IF x.n = 0 \/ y.n = 0 THEN NaN
               ELSE [n |-> Sign(x.n) * Sign(y.n), d |-> 0])
    ELSE Rat(x.n * y.n, x.d * y.d)

\* x / y
NumDiv(x, y) ==
    IF IsNaN(x) \/ IsNaN(y) THEN NaN
    ELSE IF IsInf(x) THEN (IF IsInf(y) THEN NaN
                           ELSE [n |-> x.n * (IF y.n < 0 THEN -1 ELSE 1), d |-> 0])
    ELSE IF IsInf(y) THEN Num(0)
    ELSE IF y.n = 0 THEN [n |-> Sign(x.n), d |-> 0]
    ELSE Rat(x.n * y.d, x.d * y.n)

\* x < y
NumLt(x, y) ==
    IF IsNaN(x) \/ IsNaN(y) THEN FALSE
    ELSE IF IsInf(x) /\ IsInf(y) THEN x.n < y.n
    ELSE x.n * y.d < y.n * x.d

\* x > y
NumGt(x, y) == NumLt(y, x)

\* x >= y
NumGe(x, y) == (~IsNaN(x)) /\ (~IsNaN(y)) /\ ~NumLt(x, y)

\* x <= y
NumLe(x, y) == NumGe(y, x)

(***************************************************************************)
(* Characters                                                              *)
(***************************************************************************)
LowerLetters ==
    <<"a", "b", "c", "d", "e", "f", "g", "h", "i", "j", "k", "l", "m",
      "n", "o", "p", "q", "r", "s", "t", "u", "v", "w", "x", "y", "z">>

UpperLetters ==
    <<"A", "B", "C", "D", "E", "F", "G", "H", "I", "J", "K", "L", "M",
      "N", "O", "P", "Q", "R", "S", "T", "U", "V", "W", "X", "Y", "Z">>

Digits == {"0", "1", "2", "3", "4", "5", "6", "7", "8", "9"}

\* the characters the regular expression class \s matches, among those used
WhiteSpace == {" ", "\t"}

\* String.prototype.toLowerCase on one character
LowerChar(c) ==
    IF \E i \in 1..Len(UpperLetters) : UpperLetters[i] = c
    THEN LowerLetters[CHOOSE i \in 1..Len(UpperLetters) : UpperLetters[i] = c]
    ELSE c

toLowerCase(text) == [i \in 1..Len(text) |-> LowerChar(text[i])]

\* text.replace(/[^a-z0-9\s]/g, ' ')
replaceSpecial(text) ==
    [i \in 1..Len(text) |->
        IF text[i] \in Range(LowerLetters) \cup Digits \cup WhiteSpace
        THEN text[i] ELSE " "]

\* String.prototype.split(/\s+/): the fragments between maximal whitespace runs,
\* the empty leading and trailing fragments included
RECURSIVE splitWs(_, _, _, _)
splitWs(s, cur, acc, inWs) ==
    IF s = <<>> THEN Append(acc, cur)
    ELSE IF Head(s) \in WhiteSpace
         THEN (IF inWs THEN splitWs(Tail(s), cur, acc, TRUE)
               ELSE splitWs(Tail(s), <<>>, Append(acc, cur), TRUE))
    ELSE splitWs(Tail(s), Append(cur, Head(s)), acc, FALSE)

split(text) == splitWs(text, <<>>, <<>>, FALSE)

(***************************************************************************)
(* src/utils/matching.ts                                                   *)
(***************************************************************************)
\* an absent text (undefined / null)
Undefined == <<"undefined">>

\* Object.prototype.constructor, what NORMALIZATION_RULES["constructor"] yields:
\* a function whose .length is 1 and whose string form holds no digit
ObjectCtor == <<"function Object() { [native code] }">>

NORMALIZATION_RULES ==
    << <<  <<"k", "g">>,       <<"k", "i", "l", "o", "g", "r", "a", "m">>  >>,
       <<  <<"g">>,            <<"g", "r", "a", "m">>  >>,
       <<  <<"m", "l">>,       <<"m", "i", "l", "l", "i", "l", "i", "t", "e", "r">>  >>,
       <<  <<"l">>,            <<"l", "i", "t", "e", "r">>  >>,
       <<  <<"p", "u">>,       <<"p", "o", "l", "y", "u", "r", "e", "t", "h", "a", "n", "e">>  >>,
       <<  <<"q", "t", "y">>,  <<"q", "u", "a", "n", "t", "i", "t", "y">>  >>,
       <<  <<"p", "c", "s">>,  <<"p", "i", "e", "c", "e", "s">>  >>  >>

STOP_WORDS ==
    { <<"p", "r", "e", "m", "i", "u", "m">>,
      <<"h", "i", "g", "h">>,
      <<"q", "u", "a", "l", "i", "t", "y">>,
      <<"o", "r", "i", "g", "i", "n", "a", "l">>,
      <<"a", "u", "t", "h", "e", "n", "t", "i", "c">>,
      <<"t", "o", "p">>,
      <<"g", "r", "a", "d", "e">>,
      <<"t", "h", "e">>,
      <<"a", "n", "d">>,
      <<"f", "o", "r">>,
      <<"w", "i", "t", "h">> }

\* NORMALIZATION_RULES[t] || t : an own key, else a property inherited from
\* Object.prototype (the only all-lowercase alphanumeric one is constructor)
expandToken(t) ==
    IF \E i \in 1..Len(NORMALIZATION_RULES) : NORMALIZATION_RULES[i][1] = t
    THEN NORMALIZATION_RULES[CHOOSE i \in 1..Len(NORMALIZATION_RULES) :
                                NORMALIZATION_RULES[i][1] = t][2]
    ELSE IF t = <<"c", "o", "n", "s", "t", "r", "u", "c", "t", "o", "r">>
         THEN ObjectCtor
    ELSE t

\* /\d/.test(a)
hasDigit(a) == \E i \in 1..Len(a) : a[i] \in Digits

\* the comparator with the two lengths swapped
compareTokens_shorterFirst(a, b) ==
    IF hasDigit(a) /\ ~hasDigit(b) THEN -1
    ELSE IF (~hasDigit(a)) /\ hasDigit(b) THEN 1
    ELSE Len(a) - Len(b)

\* the comparator handed to Array.prototype.sort
compareTokens(a, b) ==
    IF hasDigit(a) /\ ~hasDigit(b) THEN -1
    ELSE IF (~hasDigit(a)) /\ hasDigit(b) THEN 1
    ELSE Len(b) - Len(a)

\* Array.prototype.sort is stable: x goes before the first element it must precede
RECURSIVE insertToken(_, _)
insertToken(sorted, x) ==
    IF sorted = <<>> THEN <<x>>
    ELSE IF compareTokens(x, Head(sorted)) < 0 THEN <<x>> \o sorted
    ELSE <<Head(sorted)>> \o insertToken(Tail(sorted), x)

RECURSIVE sortTokens(_, _)
sortTokens(tokens, sorted) ==
    IF tokens = <<>> THEN sorted
    ELSE sortTokens(Tail(tokens), insertToken(sorted, Head(tokens)))

\* the result of the stop-word filter thrown away
normalizeText_noStopFilter(text) ==
    IF text = Undefined \/ text = <<>> THEN <<>>
    ELSE LET clean    == replaceSpecial(toLowerCase(text))
             tokens   == SelectSeq(split(clean), LAMBDA t : Len(t) > 0)
             expanded == [i \in 1..Len(tokens) |-> expandToken(tokens[i])]
         IN  sortTokens(expanded, <<>>)

\* the empty fragments of split kept
normalizeText_keepsEmptyFragments(text) ==
    IF text = Undefined \/ text = <<>> THEN <<>>
    ELSE LET clean    == replaceSpecial(toLowerCase(text))
             tokens   == split(clean)
             expanded == [i \in 1..Len(tokens) |-> expandToken(tokens[i])]
             kept     == SelectSeq(expanded, LAMBDA t : t \notin STOP_WORDS)
         IN  sortTokens(kept, <<>>)

normalizeText(text) ==
    IF text = Undefined \/ text = <<>> THEN <<>>
    ELSE LET clean    == replaceSpecial(toLowerCase(text))
             tokens   == SelectSeq(split(clean), LAMBDA t : Len(t) > 0)
             expanded == [i \in 1..Len(tokens) |-> expandToken(tokens[i])]
             kept     == SelectSeq(expanded, LAMBDA t : t \notin STOP_WORDS)
         IN  sortTokens(kept, <<>>)

\* setA.forEach(token => { if (setB.has(token)) intersection++ })
RECURSIVE countIn(_, _)
countIn(setA, setB) ==
    IF setA = {} THEN 0
    ELSE LET token == CHOOSE t \in setA : TRUE
         IN  (IF token \in setB THEN 1 ELSE 0) + countIn(setA \ {token}, setB)

\* the same loop run over the array tokensA instead of the set built from it
calculateSimilarity_overArray(tokensA, tokensB) ==
    IF Len(tokensA) = 0 \/ Len(tokensB) = 0 THEN Num(0)
    ELSE LET setB         == Range(tokensB)
             intersection == Cardinality({i \in 1..Len(tokensA) : tokensA[i] \in setB})
             union        == Cardinality(Range(tokensA \o tokensB))
         IN  NumMul(NumDiv(Num(intersection), Num(union)), Num(100))

\* the union taken as the sum of the two set sizes
calculateSimilarity_sumUnion(tokensA, tokensB) ==
    IF Len(tokensA) = 0 \/ Len(tokensB) = 0 THEN Num(0)
    ELSE LET setA         == Range(tokensA)
             setB         == Range(tokensB)
             intersection == countIn(setA, setB)
             union        == Cardinality(setA) + Cardinality(setB)
         IN  NumMul(NumDiv(Num(intersection), Num(union)), Num(100))

\* the empty-input guard dropped
calculateSimilarity_noGuard(tokensA, tokensB) ==
    LET setA         == Range(tokensA)
        setB         == Range(tokensB)
        intersection == countIn(setA, setB)
        union        == Cardinality(Range(tokensA \o tokensB))
    IN  NumMul(NumDiv(Num(intersection), Num(union)), Num(100))

calculateSimilarity(tokensA, tokensB) ==
    IF Len(tokensA) = 0 \/ Len(tokensB) = 0 THEN Num(0)
    ELSE LET setA         == Range(tokensA)
             setB         == Range(tokensB)
             intersection == countIn(setA, setB)
             union        == Cardinality(Range(tokensA \o tokensB))
         IN  NumMul(NumDiv(Num(intersection), Num(union)), Num(100))

(***************************************************************************)
(* src/utils/math.ts                                                       *)
(***************************************************************************)
\* Math.min(...xs): starts from +Infinity, NaN is contagious
RECURSIVE mathMin(_, _)
mathMin(xs, acc) ==
    IF xs = <<>> THEN acc
    ELSE mathMin(Tail(xs),
                 IF IsNaN(acc) \/ IsNaN(Head(xs)) THEN NaN
                 ELSE IF NumLt(Head(xs), acc) THEN Head(xs) ELSE acc)

\* Math.max(...xs): starts from -Infinity
RECURSIVE mathMax(_, _)
mathMax(xs, acc) ==
    IF xs = <<>> THEN acc
    ELSE mathMax(Tail(xs),
                 IF IsNaN(acc) \/ IsNaN(Head(xs)) THEN NaN
                 ELSE IF NumGt(Head(xs), acc) THEN Head(xs) ELSE acc)

\* xs.reduce((a, b) => a + b, acc)
RECURSIVE reduceSum(_, _)
reduceSum(xs, acc) ==
    IF xs = <<>> THEN acc
    ELSE reduceSum(Tail(xs), NumAdd(acc, Head(xs)))

ZeroStats ==
    [min |-> Num(0), max |-> Num(0), avg |-> Num(0), count |-> 0,
     varianceFromAvg |-> Num(0), varianceFromMin |-> Num(0)]

\* the empty-list guard dropped
calculateStats_noGuard(supplierPrice, marketPrices) ==
    LET min == mathMin(marketPrices, PosInf)
        max == mathMax(marketPrices, NegInf)
        sum == reduceSum(marketPrices, Num(0))
        avg == NumDiv(sum, Num(Len(marketPrices)))
    IN  [min |-> min, max |-> max, avg |-> avg, count |-> Len(marketPrices),
         varianceFromAvg |-> NumMul(NumDiv(NumSub(supplierPrice, avg), avg), Num(100)),
         varianceFromMin |-> NumMul(NumDiv(NumSub(supplierPrice, min), min), Num(100))]

\* varianceFromMin measured against the maximum
calculateStats_varFromMax(supplierPrice, marketPrices) ==
    IF Len(marketPrices) = 0 THEN ZeroStats
    ELSE LET min == mathMin(marketPrices, PosInf)
             max == mathMax(marketPrices, NegInf)
             sum == reduceSum(marketPrices, Num(0))
             avg == NumDiv(sum, Num(Len(marketPrices)))
         IN  [min |-> min, max |-> max, avg |-> avg, count |-> Len(marketPrices),
              varianceFromAvg |-> NumMul(NumDiv(NumSub(supplierPrice, avg), avg), Num(100)),
              varianceFromMin |-> NumMul(NumDiv(NumSub(supplierPrice, max), max), Num(100))]

\* a variance reported as 0 when its divisor is 0
calculateStats_clampsZero(supplierPrice, marketPrices) ==
    IF Len(marketPrices) = 0 THEN ZeroStats
    ELSE LET min == mathMin(marketPrices, PosInf)
             max == mathMax(marketPrices, NegInf)
             sum == reduceSum(marketPrices, Num(0))
             avg == NumDiv(sum, Num(Len(marketPrices)))
         IN  [min |-> min, max |-> max, avg |-> avg, count |-> Len(marketPrices),
              varianceFromAvg |-> IF avg = Num(0) THEN Num(0)
                                  ELSE NumMul(NumDiv(NumSub(supplierPrice, avg), avg), Num(100)),
              varianceFromMin |-> IF min = Num(0) THEN Num(0)
                                  ELSE NumMul(NumDiv(NumSub(supplierPrice, min), min), Num(100))]

calculateStats(supplierPrice, marketPrices) ==
    IF Len(marketPrices) = 0 THEN ZeroStats
    ELSE LET min == mathMin(marketPrices, PosInf)
             max == mathMax(marketPrices, NegInf)
             sum == reduceSum(marketPrices, Num(0))
             avg == NumDiv(sum, Num(Len(marketPrices)))
         IN  [min |-> min, max |-> max, avg |-> avg, count |-> Len(marketPrices),
              varianceFromAvg |-> NumMul(NumDiv(NumSub(supplierPrice, avg), avg), Num(100)),
              varianceFromMin |-> NumMul(NumDiv(NumSub(supplierPrice, min), min), Num(100))]

(***************************************************************************)
(* src/utils/math.ts, lines 10-11, in the arithmetic of the engine.  A     *)
(* JavaScript number is an IEEE 754 binary64: 53 significant bits, every   *)
(* operation rounded to the nearest value, ties to even.  The fractions    *)
(* above give the exact value of an expression and so cannot tell one      *)
(* order of additions from another; here the sum and the mean of a price   *)
(* list are computed bit by bit.  A positive binary64 is [e, m]: m its 53  *)
(* significant bits, the most significant first and equal to 1, e the      *)
(* exponent of the last one; zero is [e |-> 0, m |-> <<>>].  Prices are    *)
(* finite and not negative (parseVal keeps digits and dots only) and stay  *)
(* far from the exponent limits, which are not modelled.                   *)
(***************************************************************************)
SignificandBits == 53

Zero64 == [e |-> 0, m |-> <<>>]

Zeros(k) == [i \in 1..k |-> 0]

\* the bits from the first 1 on
stripZeros(bits) ==
    IF \A i \in 1..Len(bits) : bits[i] = 0 THEN <<>>
    ELSE LET first == CHOOSE i \in 1..Len(bits) :
                          bits[i] = 1 /\ \A j \in 1..(i - 1) : bits[j] = 0
         IN  SubSeq(bits, first, Len(bits))

\* a + b + carry of two bit strings of one length, the least significant bit
\* first, halved until one bit is left: the sum bits and the carry out
RECURSIVE addLow(_, _, _)
addLow(a, b, carry) ==
    IF a = <<>> THEN [bits |-> <<>>, carry |-> carry]
    ELSE IF Len(a) = 1
         THEN [bits |-> <<(a[1] + b[1] + carry) % 2>>,
               carry |-> (a[1] + b[1] + carry) \div 2]
    ELSE LET h  == Len(a) \div 2
             lo == addLow(SubSeq(a, 1, h), SubSeq(b, 1, h), carry)
             hi == addLow(SubSeq(a, h + 1, Len(a)), SubSeq(b, h + 1, Len(b)), lo.carry)
         IN  [bits |-> lo.bits \o hi.bits, carry |-> hi.carry]

\* the same, the most significant bit first, the carry out in front
addBits(a, b, carry) ==
    LET sum == addLow(Reverse(a), Reverse(b), carry)
    IN  <<sum.carry>> \o Reverse(sum.bits)

\* the binary64 nearest to bits * 2^e, ties to even
round64(bits, e) ==
    LET sig == stripZeros(bits)
        L   == Len(sig)
    IN  IF sig = <<>> THEN Zero64
        ELSE IF L <= SignificandBits
             THEN [e |-> e - (SignificandBits - L),
                   m |-> sig \o Zeros(SignificandBits - L)]
        ELSE LET kept == SubSeq(sig, 1, SignificandBits)
                 half == sig[SignificandBits + 1] = 1
                 more == \E i \in (SignificandBits + 2)..L : sig[i] = 1
                 up   == half /\ (more \/ kept[SignificandBits] = 1)
                 e1   == e + (L - SignificandBits)
                 inc  == addBits(kept, Zeros(SignificandBits), 1)
             IN  IF ~up THEN [e |-> e1, m |-> kept]
                 ELSE IF inc[1] = 1
                      THEN [e |-> e1 + 1, m |-> SubSeq(inc, 1, SignificandBits)]
                 ELSE [e |-> e1, m |-> Tail(inc)]

\* the bits of the natural number k, without leading zeros
RECURSIVE binary(_)
binary(k) == IF k = 0 THEN <<>> ELSE binary(k \div 2) \o <<k % 2>>

\* the next k bits of the fraction r/den (r < den, k > 0) and the remainder
\* left, halved until one bit is left
RECURSIVE expand(_, _, _)
expand(r, den, k) ==
    IF k = 1 THEN [bits |-> <<(2 * r) \div den>>, r |-> (2 * r) % den]
    ELSE LET hi == expand(r, den, k \div 2)
             lo == expand(hi.r, den, k - (k \div 2))
         IN  [bits |-> hi.bits \o lo.bits, r |-> lo.r]

\* a last bit that tells whether a remainder is left
sticky(r) == <<IF r = 0 THEN 0 ELSE 1>>

\* the number a price is held as: the binary64 nearest to the decimal value
\* (parseFloat); x is finite and not negative
toBinary64(x) ==
    LET frac == expand(x.n % x.d, x.d, 2 * SignificandBits)
    IN  round64(binary(x.n \div x.d) \o frac.bits \o sticky(frac.r),
                -(2 * SignificandBits + 1))

\* a + b
add64(x, y) ==
    IF x.m = <<>> THEN y
    ELSE IF y.m = <<>> THEN x
    ELSE LET hi  == IF x.e >= y.e THEN x ELSE y
             lo  == IF x.e >= y.e THEN y ELSE x
             s   == hi.e - lo.e
         IN  round64(addBits(hi.m \o Zeros(s), Zeros(s) \o lo.m, 0), lo.e)

\* the quotient bits of (r, bits) / n for 0 <= r < n and bits # <<>>, and the
\* remainder left, halved until one bit is left
RECURSIVE longDivide(_, _, _)
longDivide(bits, n, r) ==
    IF Len(bits) = 1
    THEN [bits |-> <<(2 * r + bits[1]) \div n>>, r |-> (2 * r + bits[1]) % n]
    ELSE LET h  == Len(bits) \div 2
             hi == longDivide(SubSeq(bits, 1, h), n, r)
             lo == longDivide(SubSeq(bits, h + 1, Len(bits)), n, hi.r)
         IN  [bits |-> hi.bits \o lo.bits, r |-> lo.r]

\* sum / length for a positive whole length
div64(x, n) ==
    IF x.m = <<>> THEN Zero64
    ELSE LET q == longDivide(x.m \o Zeros(SignificandBits), n, 0)
         IN  round64(q.bits \o sticky(q.r), x.e - (SignificandBits + 1))

\* marketPrices.reduce((a, b) => a + b, acc)
RECURSIVE sum64(_, _)
sum64(xs, acc) ==
    IF xs = <<>> THEN acc ELSE sum64(Tail(xs), add64(acc, toBinary64(Head(xs))))

\* the avg field of calculateStats(supplierPrice, marketPrices)
avg64(marketPrices) ==
    IF Len(marketPrices) = 0 THEN Zero64
    ELSE div64(sum64(marketPrices, Zero64), Len(marketPrices))

(***************************************************************************)
(* src/components/DataInput.tsx                                            *)
(* A column is the list of lines column.split('\n') yields, so it is never *)
(* empty: the empty text area is the one-line column << <<>> >>.  The      *)
(* columns that are only copied into the items (currency, incoterm, moq,   *)
(* source, country, the secondary price points) are left out.              *)
(***************************************************************************)
DigitSeq == <<"0", "1", "2", "3", "4", "5", "6", "7", "8", "9">>

DigitVal(c) == (CHOOSE i \in 1..Len(DigitSeq) : DigitSeq[i] = c) - 1

RECURSIVE digitsVal(_, _)
digitsVal(ds, acc) ==
    IF ds = <<>> THEN acc ELSE digitsVal(Tail(ds), 10 * acc + DigitVal(Head(ds)))

RECURSIVE Pow10(_)
Pow10(k) == IF k = 0 THEN 1 ELSE 10 * Pow10(k - 1)

RECURSIVE takeDigits(_)
takeDigits(s) ==
    IF s # <<>> /\ Head(s) \in Digits THEN <<Head(s)>> \o takeDigits(Tail(s)) ELSE <<>>

\* parseFloat on a text of digits and dots: the longest leading decimal literal
parseFloat(s) ==
    LET ip   == takeDigits(s)
        rest == SubSeq(s, Len(ip) + 1, Len(s))
        fp   == IF rest # <<>> /\ Head(rest) = "." THEN takeDigits(Tail(rest)) ELSE <<>>
    IN  IF ip = <<>> /\ fp = <<>> THEN NaN
        ELSE Rat(digitsVal(ip \o fp, 0), Pow10(Len(fp)))

\* String.prototype.trim
RECURSIVE trimStart(_)
trimStart(s) == IF s # <<>> /\ Head(s) \in WhiteSpace THEN trimStart(Tail(s)) ELSE s

RECURSIVE trimEnd(_)
trimEnd(s) ==
    IF s # <<>> /\ s[Len(s)] \in WhiteSpace THEN trimEnd(SubSeq(s, 1, Len(s) - 1)) ELSE s

trim(s) == trimEnd(trimStart(s))

\* column[i], zero-based; Undefined past the end
lineAt(column, i) == IF i + 1 <= Len(column) THEN column[i + 1] ELSE Undefined

\* column[i]?.trim()
trimmedAt(column, i) ==
    IF lineAt(column, i) = Undefined THEN Undefined ELSE trim(lineAt(column, i))

\* x || '' for a text x
orEmpty(x) == IF x = Undefined THEN <<>> ELSE x

\* the result is <<>> for undefined and <<number>> otherwise
parseVal(val) ==
    IF val = Undefined THEN <<>>
    ELSE LET cleaned == SelectSeq(val, LAMBDA c : c \in Digits \cup {"."})
         IN  IF cleaned = <<>> THEN <<>> ELSE <<parseFloat(cleaned)>>

\* parseVal(x) || 0 : undefined, NaN and 0 are falsy
orZero(v) == IF v = <<>> \/ IsNaN(v[1]) \/ v[1] = Num(0) THEN Num(0) ELSE v[1]

\* the decimal digits of a natural number, as in a template string
RECURSIVE decimal(_)
decimal(k) ==
    IF k < 10 THEN <<DigitSeq[k + 1]>> ELSE decimal(k \div 10) \o <<DigitSeq[(k % 10) + 1]>>

Max2(a, b) == IF a >= b THEN a ELSE b

\* every supplier of one ingestion given the id of row 0
supId_firstRow(i, clock) == <<"sup", 0, clock>>

\* `sup-${i}-${Date.now()}`
supId(i, clock) == <<"sup", i, clock>>

\* `mkt-${i}-${Date.now()}`
mktId(i, clock) == <<"mkt", i, clock>>

\* one pass of the supplier loop, rows i .. maxRows-1
RECURSIVE supplierRows(_, _, _, _)
supplierRows(cols, i, maxRows, clock) ==
    IF i >= maxRows THEN <<>>
    ELSE LET desc == orEmpty(trimmedAt(cols.description, i))
             code == orEmpty(trimmedAt(cols.code, i))
         IN  IF desc = <<>> /\ code = <<>>
             THEN supplierRows(cols, i + 1, maxRows, clock)
             ELSE << [id               |-> supId(i, clock),
                      code             |-> IF code = <<>> THEN <<"N", "/", "A">> ELSE code,
                      description      |-> IF desc = <<>>
                                           THEN <<"P", "r", "o", "d", "u", "c", "t", " ">>
                                                \o decimal(i + 1)
                                           ELSE desc,
                      size             |-> trimmedAt(cols.size, i),
                      otherFeature     |-> trimmedAt(cols.feature, i),
                      price            |-> orZero(parseVal(lineAt(cols.price, i))),
                      normalizedTokens |->
                          normalizeText(desc \o <<" ">> \o orEmpty(lineAt(cols.size, i))
                                        \o <<" ">> \o orEmpty(lineAt(cols.feature, i)))] >>
                  \o supplierRows(cols, i + 1, maxRows, clock)

\* one pass of the market loop, rows i .. maxRows-1
RECURSIVE marketRows(_, _, _, _)
marketRows(cols, i, maxRows, clock) ==
    IF i >= maxRows THEN <<>>
    ELSE LET desc  == orEmpty(trimmedAt(cols.description, i))
             price == orEmpty(trimmedAt(cols.price, i))
         IN  IF desc = <<>> /\ price = <<>>
             THEN marketRows(cols, i + 1, maxRows, clock)
             ELSE << [id               |-> mktId(i, clock),
                      description      |-> IF desc = <<>>
                                           THEN <<"M", "a", "r", "k", "e", "t", " ",
                                                  "I", "t", "e", "m", " ">> \o decimal(i + 1)
                                           ELSE desc,
                      price            |-> orZero(parseVal(lineAt(cols.price, i))),
                      normalizedTokens |-> normalizeText(desc)] >>
                  \o marketRows(cols, i + 1, maxRows, clock)

\* Math.max(supCols.code.length, supCols.description.length, supCols.price.length)
maxSupplierRows(supplierCols) ==
    Max2(Len(supplierCols.code),
         Max2(Len(supplierCols.description), Len(supplierCols.price)))

\* Math.max(mktCols.description.length, mktCols.price.length)
maxMarketRows(marketCols) == Max2(Len(marketCols.description), Len(marketCols.price))

\* the two collections zipData hands to onProcess; clock is what Date.now() reads
zipData(supplierCols, marketCols, clock) ==
    [sups |-> supplierRows(supplierCols, 0, maxSupplierRows(supplierCols), clock),
     mkts |-> marketRows(marketCols, 0, maxMarketRows(marketCols), clock)]

(***************************************************************************)
(* src/App.tsx                                                             *)
(***************************************************************************)
MatchFloor == 10

InitialThreshold == 70

\* score >= 10 kept as well
keepsEdge_inclusive(score) == NumGe(score, Num(MatchFloor))

\* if (score > 10)
keepsEdge(score) == NumGt(score, Num(MatchFloor))

\* results.push({ supplierId, marketId, confidence })
newEdge(sups, mkts, sup, mkt, score) ==
    [supplierId |-> sup.id, marketId |-> mkt.id, confidence |-> score]

\* mkts.forEach(mkt => ...) for one sup, from market j on
RECURSIVE matchMarkets(_, _, _, _)
matchMarkets(sups, mkts, i, j) ==
    IF j > Len(mkts) THEN <<>>
    ELSE LET score == calculateSimilarity(sups[i].normalizedTokens,
                                          mkts[j].normalizedTokens)
         IN  (IF keepsEdge(score)
              THEN <<newEdge(sups, mkts, sups[i], mkts[j], score)>> ELSE <<>>)
             \o matchMarkets(sups, mkts, i, j + 1)

\* sups.forEach(sup => ...), from supplier i on
RECURSIVE matchSuppliers(_, _, _)
matchSuppliers(sups, mkts, i) ==
    IF i > Len(sups) THEN <<>>
    ELSE matchMarkets(sups, mkts, i, 1) \o matchSuppliers(sups, mkts, i + 1)

\* the list the timer callback builds
results(sups, mkts) == matchSuppliers(sups, mkts, 1)

(***************************************************************************)
(* src/components/ComparisonTable.tsx, viewRows: the statistics of each    *)
(* reference item.  The search, status filter and column sort that follow  *)
(* (lines 64-101) choose and order the rows and leave their statistics     *)
(* alone; they are left out.                                               *)
(***************************************************************************)
\* the comparison turned round: confidence <= threshold
showsMatch_atMost(m, sup, threshold) ==
    m.supplierId = sup.id /\ NumLe(m.confidence, Num(threshold))

\* m.supplierId === sup.id && m.confidence >= confidenceThreshold
showsMatch(m, sup, threshold) ==
    m.supplierId = sup.id /\ NumGe(m.confidence, Num(threshold))

\* .sort((a, b) => b.confidence - a.confidence): stable, greatest first
RECURSIVE insertByConfidence(_, _)
insertByConfidence(sorted, m) ==
    IF sorted = <<>> THEN <<m>>
    ELSE IF NumGt(m.confidence, Head(sorted).confidence) THEN <<m>> \o sorted
    ELSE <<Head(sorted)>> \o insertByConfidence(Tail(sorted), m)

RECURSIVE sortByConfidence(_, _)
sortByConfidence(ms, sorted) ==
    IF ms = <<>> THEN sorted
    ELSE sortByConfidence(Tail(ms), insertByConfidence(sorted, Head(ms)))

productMatches(sup, ms, threshold) ==
    sortByConfidence(SelectSeq(ms, LAMBDA m : showsMatch(m, sup, threshold)), <<>>)

\* markets.find(mk => mk.id === m.marketId): <<>> for undefined, <<item>> otherwise
findMarket(mkts, marketId) ==
    LET hits == SelectSeq(mkts, LAMBDA mk : mk.id = marketId)
    IN  IF hits = <<>> THEN <<>> ELSE <<Head(hits)>>

\* one element of the suppliers.map; reading .price of an item that was not
\* found throws a TypeError out of the whole computation
viewRow(sup, mkts, ms, threshold) ==
    LET pm    == productMatches(sup, ms, threshold)
        found == [k \in 1..Len(pm) |-> findMarket(mkts, pm[k].marketId)]
    IN  IF \E k \in 1..Len(pm) : found[k] = <<>>
        THEN [threw |-> TRUE, supplier |-> sup, productMatches |-> pm, stats |-> ZeroStats]
        ELSE [threw |-> FALSE, supplier |-> sup, productMatches |-> pm,
              stats |-> calculateStats(sup.price,
                                       [k \in 1..Len(pm) |-> found[k][1].price])]

viewRows(sups, mkts, ms, threshold) ==
    [k \in 1..Len(sups) |-> viewRow(sups[k], mkts, ms, threshold)]

\* the dependency list without the threshold
memoDeps_withoutThreshold(sups, mkts, ms, threshold) == <<sups, mkts, ms>>

\* the dependency list of the useMemo (line 102); the four other dependencies
\* belong to the steps left out.  Compared by value here, by reference in
\* React: a recomputation on equal values yields equal rows.
memoDeps(sups, mkts, ms, threshold) == <<sups, mkts, ms, threshold>>

\* what the memo cell holds after App has rendered with the given state: the
\* table is mounted on the analysis tab when there are suppliers (App.tsx
\* 172-198), a mounted table keeps its rows while the dependencies are the same
render(cell, sups, mkts, ms, threshold, tab) ==
    IF tab = "ANALYSIS" /\ Len(sups) > 0
    THEN IF cell # <<>> /\ cell[1].deps = memoDeps(sups, mkts, ms, threshold)
         THEN cell
         ELSE << [deps |-> memoDeps(sups, mkts, ms, threshold),
                  rows |-> viewRows(sups, mkts, ms, threshold)] >>
    ELSE <<>>

\* the prices the table hands to calculateStats for one reference item, in
\* the order of its sorted edges (lines 58-59); every edge is resolved
tablePrices(sup, mkts, ms, threshold) ==
    LET pm == productMatches(sup, ms, threshold)
    IN  [k \in 1..Len(pm) |-> findMarket(mkts, pm[k].marketId)[1].price]

(***************************************************************************)
(* src/components/Dashboard.tsx, matchedData                               *)
(***************************************************************************)
\* matches.filter(...): the edges shown, in the order of the match list
dashboardMatches(sup, ms, threshold) ==
    SelectSeq(ms, LAMBDA m : showsMatch(m, sup, threshold))

\* one element of the suppliers.map, with the price list it hands over
dashboardRow(sup, mkts, ms, threshold) ==
    LET pm    == dashboardMatches(sup, ms, threshold)
        found == [k \in 1..Len(pm) |-> findMarket(mkts, pm[k].marketId)]
    IN  IF \E k \in 1..Len(pm) : found[k] = <<>>
        THEN [threw |-> TRUE, supplier |-> sup, prices |-> <<>>, stats |-> ZeroStats]
        ELSE LET prices == [k \in 1..Len(pm) |-> found[k][1].price]
             IN  [threw |-> FALSE, supplier |-> sup, prices |-> prices,
                  stats |-> calculateStats(sup.price, prices)]

\* .filter(d => d.count > 0)
matchedData(sups, mkts, ms, threshold) ==
    SelectSeq([k \in 1..Len(sups) |-> dashboardRow(sups[k], mkts, ms, threshold)],
              LAMBDA d : d.stats.count > 0)

(***************************************************************************)
(* src/App.tsx, handleExportCSV: the statistics behind each line           *)
(***************************************************************************)
\* markets.find(...)?.price || 0
priceOrZero(found) ==
    IF found = <<>> \/ IsNaN(found[1].price) \/ found[1].price = Num(0)
    THEN Num(0) ELSE found[1].price

exportRow(sup, mkts, ms, threshold) ==
    LET pm     == SelectSeq(ms, LAMBDA m : showsMatch(m, sup, threshold))
        prices == [k \in 1..Len(pm) |-> priceOrZero(findMarket(mkts, pm[k].marketId))]
    IN  [supplier |-> sup, prices |-> prices,
         stats |-> calculateStats(sup.price, prices)]

exportRows(sups, mkts, ms, threshold) ==
    [k \in 1..Len(sups) |-> exportRow(sups[k], mkts, ms, threshold)]

Tabs == {"INPUT", "ANALYSIS", "DASHBOARD"}

\* sample positions of the 0..100 range input
Thresholds == {0, 50, 70, 100}

(***************************************************************************)
(* What the user has typed into the column boxes when pressing the button. *)
(***************************************************************************)
EmptyColumn == << <<>> >>

\* one reference item, a matching and an unrelated observation
ValveSheet ==
    [supplierCols |->
        [code        |-> << <<"A", "1">> >>,
         description |-> << <<"S", "t", "a", "n", "d", "a", "r", "d", " ", "V", "a", "l", "v", "e">> >>,
         size        |-> EmptyColumn,
         feature     |-> EmptyColumn,
         price       |-> << <<"1", "0">> >>],
     marketCols |->
        [description |-> << <<"V", "a", "l", "v", "e", " ", "S", "t", "a", "n", "d", "a", "r", "d">>,
                            <<"U", "n", "r", "e", "l", "a", "t", "e", "d", " ", "W", "i", "d", "g", "e", "t">> >>,
         price       |-> << <<"1", "1">>, <<"9", "9", "9">> >>]]

\* scores on both sides of the floor: 1/10, 1/9, 1/11 and 1
FloorSheet ==
    [supplierCols |->
        [code        |-> << <<"B", "2">>, <<>> >>,
         description |-> << <<"a", " ", "b", " ", "c", " ", "d", " ", "e", " ", "f">>,
                            <<"a", " ", "h", " ", "i", " ", "j">> >>,
         size        |-> EmptyColumn,
         feature     |-> EmptyColumn,
         price       |-> << <<"1", "2", ".", "5">>, <<" ", "2", "0", "$">> >>],
     marketCols |->
        [description |-> << <<"a", " ", "h", " ", "i", " ", "j", " ", "k">>,
                            <<"a", " ", "h", " ", "i", " ", "j">>,
                            <<"A", "-", "h", " ", "i", " ", "j", " ", "k", " ", "m">> >>,
         price       |-> << <<"1", "0">>, <<"1", "1">>, <<"0">> >>]]

\* blank rows, a row with a code only, a row with a price only
BlankSheet ==
    [supplierCols |->
        [code        |-> << <<>>, <<"X">> >>,
         description |-> << <<" ">>, <<>>, <<"V", "a", "l", "v", "e">> >>,
         size        |-> << <<>>, <<>>, <<"5", "0", "0", "m", "l">> >>,
         feature     |-> EmptyColumn,
         price       |-> << <<>>, <<".">> >>],
     marketCols |->
        [description |-> << <<>>, <<"V", "a", "l", "v", "e">>, <<>> >>,
         price       |-> << <<>>, <<>>, <<"1", "1">> >>]]

\* nothing typed at all
EmptySheet ==
    [supplierCols |->
        [code |-> EmptyColumn, description |-> EmptyColumn, size |-> EmptyColumn,
         feature |-> EmptyColumn, price |-> EmptyColumn],
     marketCols |-> [description |-> EmptyColumn, price |-> EmptyColumn]]

\* one reference item and three observations with decimal prices, the best
\* match last
DecimalSheet ==
    [supplierCols |->
        [code        |-> << <<"D", "4">> >>,
         description |-> << <<"a", " ", "h", " ", "i", " ", "j">> >>,
         size        |-> EmptyColumn,
         feature     |-> EmptyColumn,
         price       |-> << <<"0", ".", "2">> >>],
     marketCols |->
        [description |-> << <<"a", " ", "h", " ", "i", " ", "j", " ", "k", " ", "m">>,
                            <<"a", " ", "h", " ", "i", " ", "j", " ", "k">>,
                            <<"a", " ", "h", " ", "i", " ", "j">> >>,
         price       |-> << <<"0", ".", "1">>, <<"0", ".", "2">>, <<"0", ".", "3">> >>]]

Sheets == {ValveSheet, FloorSheet, BlankSheet, EmptySheet}

\* bounds of the host model
MaxTimers == 2

MaxClock == 1

HostInit ==
    /\ suppliers = <<>>
    /\ markets = <<>>
    /\ matches = <<>>
    /\ confidenceThreshold = InitialThreshold
    /\ activeTab = "INPUT"
    /\ isProcessing = FALSE
    /\ timers = <<>>
    /\ now = 0
    /\ memo = <<>>
    /\ cleared = FALSE

Init ==
    /\ HostInit
    /\ args = <<>>
    /\ ret = <<>>
    /\ run = <<>>

\* the Process button of DataInput: zipData, then onProcess = performMatching,
\* which raises the flag and schedules the callback
performMatching(sheet) ==
    /\ activeTab = "INPUT"
    /\ Len(timers) < MaxTimers
    /\ LET data == zipData(sheet.supplierCols, sheet.marketCols, now)
       IN  timers' = Append(timers, data)
    /\ isProcessing' = TRUE
    /\ UNCHANGED <<suppliers, markets, matches, confidenceThreshold, activeTab,
                   now, args, ret, run>>
    /\ memo' = render(memo, suppliers', markets', matches', confidenceThreshold', activeTab')

\* the setTimeout callback of the oldest pending run; its five state updates
\* are applied as one batch
timerCallback ==
    /\ timers # <<>>
    /\ LET sups == Head(timers).sups
           mkts == Head(timers).mkts
       IN  /\ suppliers' = sups
           /\ markets' = mkts
           /\ matches' = results(sups, mkts)
    /\ isProcessing' = FALSE
    /\ activeTab' = "ANALYSIS"
    /\ timers' = Tail(timers)
    /\ UNCHANGED <<confidenceThreshold, now, args, ret, run>>
    /\ memo' = render(memo, suppliers', markets', matches', confidenceThreshold', activeTab')

\* the three tab buttons; Compare and Metrics are disabled without suppliers
setActiveTab(tab) ==
    /\ tab # activeTab
    /\ tab = "INPUT" \/ Len(suppliers) > 0
    /\ activeTab' = tab
    /\ UNCHANGED <<suppliers, markets, matches, confidenceThreshold,
                   isProcessing, timers, now, args, ret, run>>
    /\ memo' = render(memo, suppliers', markets', matches', confidenceThreshold', activeTab')

\* the range input, shown on the analysis tab when there are suppliers
setConfidenceThreshold(v) ==
    /\ activeTab = "ANALYSIS"
    /\ Len(suppliers) > 0
    /\ v # confidenceThreshold
    /\ confidenceThreshold' = v
    /\ UNCHANGED <<suppliers, markets, matches, activeTab, isProcessing,
                   timers, now, args, ret, run>>
    /\ memo' = render(memo, suppliers', markets', matches', confidenceThreshold', activeTab')

\* the pending callbacks cancelled as well
reset_clearsTimers ==
    /\ Len(suppliers) > 0
    /\ suppliers' = <<>>
    /\ markets' = <<>>
    /\ matches' = <<>>
    /\ activeTab' = "INPUT"
    /\ timers' = <<>>
    /\ UNCHANGED <<confidenceThreshold, isProcessing, now, args, ret, run>>
    /\ memo' = render(memo, suppliers', markets', matches', confidenceThreshold', activeTab')

\* the match list left in place
reset_keepsMatches ==
    /\ Len(suppliers) > 0
    /\ suppliers' = <<>>
    /\ markets' = <<>>
    /\ activeTab' = "INPUT"
    /\ UNCHANGED <<matches, confidenceThreshold, isProcessing, timers, now, args, ret, run>>
    /\ memo' = render(memo, suppliers', markets', matches', confidenceThreshold', activeTab')

\* the Clear Data button, shown when there are suppliers
reset ==
    /\ Len(suppliers) > 0
    /\ suppliers' = <<>>
    /\ markets' = <<>>
    /\ matches' = <<>>
    /\ activeTab' = "INPUT"
    /\ UNCHANGED <<confidenceThreshold, isProcessing, timers, now, args, ret, run>>
    /\ memo' = render(memo, suppliers', markets', matches', confidenceThreshold', activeTab')

\* time passes
tick ==
    /\ now < MaxClock
    /\ now' = now + 1
    /\ UNCHANGED <<suppliers, markets, matches, confidenceThreshold, activeTab,
                   isProcessing, timers, args, ret, run>>
    /\ memo' = render(memo, suppliers', markets', matches', confidenceThreshold', activeTab')

Next ==
    \/ \E sheet \in Sheets : (performMatching(sheet) /\ UNCHANGED cleared)
    \/ (timerCallback /\ UNCHANGED cleared)
    \/ \E tab \in Tabs : (setActiveTab(tab) /\ UNCHANGED cleared)
    \/ \E v \in Thresholds : (setConfidenceThreshold(v) /\ UNCHANGED cleared)
    \/ (reset /\ UNCHANGED cleared)
    \/ (tick /\ UNCHANGED cleared)

Spec == Init /\ [][Next]_vars

\* the oldest pending callback leaves the queue: of the steps of Next, the
\* timerCallback steps and no others
timerFires == timers # <<>> /\ timers' = Tail(timers)

\* the host with the guarantee of setTimeout: a scheduled callback is run
\* (weak fairness of timerCallback, stated on the queue it takes its run from)
SpecLive == Init /\ [][Next]_vars /\ WF_timers(timerFires)

\* the host observed: cleared records whether reset has been used since the
\* last performMatching
NextReset ==
    \/ \E sheet \in Sheets : (performMatching(sheet) /\ cleared' = FALSE)
    \/ (timerCallback /\ UNCHANGED cleared)
    \/ \E tab \in Tabs : (setActiveTab(tab) /\ UNCHANGED cleared)
    \/ \E v \in Thresholds : (setConfidenceThreshold(v) /\ UNCHANGED cleared)
    \/ (reset /\ cleared' = TRUE)
    \/ (tick /\ UNCHANGED cleared)

SpecReset == Init /\ [][NextReset]_vars

(***************************************************************************)
(* Library calls studied on their own: the arguments are drawn in the      *)
(* initial state, the one action makes the call.  The host does not move.  *)
(***************************************************************************)
MaxTokens == 3

MaxPrices == 2

MaxTextLen == 3

SimTokens == {<<"a">>, <<"b">>, <<"c">>}

TokenSeqs == SeqsUpTo(SimTokens, MaxTokens)

StatPrices == {Num(0), Num(10), Num(11), Num(40), Num(50), Num(60), Rat(21, 2)}

NormAlphabet == {"a", "g", "l", "m", "M", "5", "-", " "}

SuperGlueAttached ==
    <<"S", "u", "p", "e", "r", "-", "G", "l", "u", "e", " ", "5", "0", "0", "M", "L">>

SuperGlueSeparated ==
    <<"s", "u", "p", "e", "r", " ", "g", "l", "u", "e", " ", "5", "0", "0", " ", "m", "l">>

PremiumQualityValve ==
    <<"P", "r", "e", "m", "i", "u", "m", " ", "Q", "u", "a", "l", "i", "t", "y", " ", "V", "a", "l", "v", "e">>

ConstructorKg ==
    <<"c", "o", "n", "s", "t", "r", "u", "c", "t", "o", "r", " ", "k", "g">>

StopWordsOnly ==
    <<"T", "h", "e", "\t", "a", "n", "d", " ", " ", "f", "o", "r", ",", "W", "I", "T", "H">>

\* equal-length tokens in both groups, and keys as parts of longer tokens
MixedTokens ==
    <<"b", "b", " ", "7", "a", " ", "a", "a", " ", "1", "2", " ", "k", "g", "s", " ", "x", "9", " ", "p", "l", "u", "g">>

ExampleTexts ==
    { SuperGlueAttached, SuperGlueSeparated, PremiumQualityValve, ConstructorKg,
      StopWordsOnly, MixedTokens, Undefined }

NormTexts == SeqsUpTo(NormAlphabet, MaxTextLen) \cup ExampleTexts

InitSim ==
    /\ HostInit
    /\ args \in [tokensA : TokenSeqs, tokensB : TokenSeqs]
    /\ ret = <<>>
    /\ run = <<>>

callCalculateSimilarity ==
    /\ ret = <<>>
    /\ ret' = <<calculateSimilarity(args.tokensA, args.tokensB)>>
    /\ UNCHANGED <<hostVars, args, run>>

NextSim == callCalculateSimilarity

SpecSim == InitSim /\ [][NextSim]_vars

InitStats ==
    /\ HostInit
    /\ args \in [supplierPrice : StatPrices, marketPrices : SeqsUpTo(StatPrices, MaxPrices)]
    /\ ret = <<>>
    /\ run = <<>>

callCalculateStats ==
    /\ ret = <<>>
    /\ ret' = <<calculateStats(args.supplierPrice, args.marketPrices)>>
    /\ UNCHANGED <<hostVars, args, run>>

NextStats == callCalculateStats

SpecStats == InitStats /\ [][NextStats]_vars

InitNorm ==
    /\ HostInit
    /\ args \in [text : NormTexts]
    /\ ret = <<>>
    /\ run = <<>>

callNormalizeText ==
    /\ ret = <<>>
    /\ ret' = <<normalizeText(args.text)>>
    /\ UNCHANGED <<hostVars, args, run>>

NextNorm == callNormalizeText

SpecNorm == InitNorm /\ [][NextNorm]_vars

(***************************************************************************)
(* The three consumers of one stored state: the comparison table, the      *)
(* dashboard and the CSV export, each computing the statistics of every    *)
(* reference item.  args is the sheet that was processed, the clock and    *)
(* the slider position; ret holds what each consumer has computed.         *)
(***************************************************************************)
ViewSheets == Sheets \cup {DecimalSheet}

\* the state the run over the sheet has stored
storedOf(a) ==
    LET data == zipData(a.sheet.supplierCols, a.sheet.marketCols, a.clock)
    IN  [sups |-> data.sups, mkts |-> data.mkts, ms |-> results(data.sups, data.mkts)]

InitView ==
    /\ HostInit
    /\ args \in [sheet : ViewSheets, clock : 0..MaxClock, threshold : Thresholds]
    /\ ret = [table |-> <<>>, dashboard |-> <<>>, export |-> <<>>]
    /\ run = <<>>

\* ComparisonTable renders: per reference item the statistics and the mean
\* as the engine computes it
renderTable ==
    /\ ret.table = <<>>
    /\ Len(storedOf(args).sups) > 0
    /\ LET st == storedOf(args)
       IN  ret' = [ret EXCEPT !.table = <<
               [k \in 1..Len(st.sups) |->
                   [supplier |-> st.sups[k],
                    stats    |-> viewRow(st.sups[k], st.mkts, st.ms, args.threshold).stats,
                    avg      |-> avg64(tablePrices(st.sups[k], st.mkts, st.ms,
                                                   args.threshold))]] >>]
    /\ UNCHANGED <<hostVars, args, run>>

\* Dashboard renders
renderDashboard ==
    /\ ret.dashboard = <<>>
    /\ Len(storedOf(args).sups) > 0
    /\ LET st   == storedOf(args)
           data == matchedData(st.sups, st.mkts, st.ms, args.threshold)
       IN  ret' = [ret EXCEPT !.dashboard = <<
               [k \in 1..Len(data) |->
                   [supplier |-> data[k].supplier,
                    stats    |-> data[k].stats,
                    avg      |-> avg64(data[k].prices)]] >>]
    /\ UNCHANGED <<hostVars, args, run>>

\* the Export CSV button
handleExportCSV ==
    /\ ret.export = <<>>
    /\ Len(storedOf(args).sups) > 0
    /\ LET st   == storedOf(args)
           rows == exportRows(st.sups, st.mkts, st.ms, args.threshold)
       IN  ret' = [ret EXCEPT !.export = <<
               [k \in 1..Len(rows) |->
                   [supplier |-> rows[k].supplier,
                    stats    |-> rows[k].stats,
                    avg      |-> avg64(rows[k].prices)]] >>]
    /\ UNCHANGED <<hostVars, args, run>>

NextView ==
    \/ renderTable
    \/ renderDashboard
    \/ handleExportCSV

SpecView == InitView /\ [][NextView]_vars

(***************************************************************************)
(* One run, loop by loop: the supplier loop and the market loop of zipData *)
(* (DataInput.tsx), the nested forEach of the timer callback (App.tsx),    *)
(* then the comparison table and its threshold.  `run` holds the loop      *)
(* variables, the collections under construction and, per library          *)
(* function, the calls made so far.  The timer between onProcess and the   *)
(* callback is not in this specification: Spec has it.                     *)
(***************************************************************************)
MaxThresholdChanges == 2

\* normalizeText is called once in the literal of every item pushed
normalizeCallsOf_twice(made) ==
    [k \in 1..(2 * Len(made)) |-> made[(k + 1) \div 2].id]

normalizeCallsOf(made) == [k \in 1..Len(made) |-> made[k].id]

\* viewRows calls calculateStats once in the callback of suppliers.map
statsCallsOf(sups) == [k \in 1..Len(sups) |-> sups[k].id]

\* the last market of every supplier left out
pairAfter_skipsLastMarket(sups, mkts, i, j) ==
    IF j + 1 < Len(mkts) THEN <<i, j + 1>> ELSE <<i + 1, 1>>

\* the pair the nested forEach visits after (i, j); the supplier index passes
\* Len(sups) when there is none
pairAfter(sups, mkts, i, j) ==
    IF j < Len(mkts) THEN <<i, j + 1>> ELSE <<i + 1, 1>>

\* new edges put in front of the list
pushEdges_front(list, edges) == edges \o list

\* results.push(...)
pushEdges(list, edges) == list \o edges

InitRun ==
    /\ HostInit
    /\ args \in [supplierCols : {sheet.supplierCols : sheet \in Sheets},
                 marketCols   : {sheet.marketCols : sheet \in Sheets},
                 clock        : 0..MaxClock]
    /\ ret = <<>>
    /\ run = [pc |-> "suppliers", i |-> 0, j |-> 0,
              sups |-> <<>>, mkts |-> <<>>, results |-> <<>>,
              threshold |-> InitialThreshold, rows |-> <<>>, changes |-> 0,
              normalized |-> <<>>, scored |-> <<>>, aggregated |-> <<>>]

\* one iteration of the supplier loop of zipData
zipSupplierRow ==
    /\ run.pc = "suppliers"
    /\ LET made == supplierRows(args.supplierCols, run.i, run.i + 1, args.clock)
           last == run.i + 1 >= maxSupplierRows(args.supplierCols)
       IN  run' = [run EXCEPT !.sups = @ \o made,
                              !.normalized = @ \o normalizeCallsOf(made),
                              !.i = IF last THEN 0 ELSE @ + 1,
                              !.pc = IF last THEN "markets" ELSE @]
    /\ UNCHANGED <<hostVars, args, ret>>

\* one iteration of the market loop of zipData; after the last one onProcess
\* hands the two collections to the matcher
zipMarketRow ==
    /\ run.pc = "markets"
    /\ LET made  == marketRows(args.marketCols, run.i, run.i + 1, args.clock)
           mkts  == run.mkts \o made
           last  == run.i + 1 >= maxMarketRows(args.marketCols)
           pairs == Len(run.sups) > 0 /\ Len(mkts) > 0
       IN  run' = [run EXCEPT !.mkts = mkts,
                              !.normalized = @ \o normalizeCallsOf(made),
                              !.i = IF last THEN 1 ELSE @ + 1,
                              !.j = IF last THEN 1 ELSE @,
                              !.pc = IF ~last THEN @
                                     ELSE IF pairs THEN "matching" ELSE "matched"]
    /\ UNCHANGED <<hostVars, args, ret>>

\* the callback empties the token array of the supplier it has scored
matchPair_consumesTokens ==
    /\ run.pc = "matching"
    /\ LET i    == run.i
           j    == run.j
           next == pairAfter(run.sups, run.mkts, i, j)
       IN  run' = [run EXCEPT
                       !.results = pushEdges(@, matchMarkets(run.sups,
                                                   SubSeq(run.mkts, 1, j), i, j)),
                       !.sups[i].normalizedTokens = <<>>,
                       !.scored = Append(@, <<i, j>>),
                       !.i = next[1],
                       !.j = next[2],
                       !.pc = IF next[1] > Len(run.sups) THEN "matched" ELSE @]
    /\ UNCHANGED <<hostVars, args, ret>>

\* one call of the inner callback: mkt => { score; if (score > 10) push }
matchPair ==
    /\ run.pc = "matching"
    /\ LET i    == run.i
           j    == run.j
           next == pairAfter(run.sups, run.mkts, i, j)
       IN  run' = [run EXCEPT
                       !.results = pushEdges(@, matchMarkets(run.sups,
                                                   SubSeq(run.mkts, 1, j), i, j)),
                       !.scored = Append(@, <<i, j>>),
                       !.i = next[1],
                       !.j = next[2],
                       !.pc = IF next[1] > Len(run.sups) THEN "matched" ELSE @]
    /\ UNCHANGED <<hostVars, args, ret>>

\* the state updates at the end of the callback mount the table, which
\* computes its rows; without suppliers no table is mounted
showTable ==
    /\ run.pc = "matched"
    /\ Len(run.sups) > 0
    /\ run' = [run EXCEPT !.rows = viewRows(run.sups, run.mkts, run.results, run.threshold),
                          !.aggregated = @ \o statsCallsOf(run.sups),
                          !.pc = "table"]
    /\ UNCHANGED <<hostVars, args, ret>>

\* the range input is moved: the table computes its rows again
changeThreshold(v) ==
    /\ run.pc = "table"
    /\ v # run.threshold
    /\ run.changes < MaxThresholdChanges
    /\ run' = [run EXCEPT !.threshold = v,
                          !.rows = viewRows(run.sups, run.mkts, run.results, v),
                          !.aggregated = @ \o statsCallsOf(run.sups),
                          !.changes = @ + 1]
    /\ UNCHANGED <<hostVars, args, ret>>

NextRun ==
    \/ zipSupplierRow
    \/ zipMarketRow
    \/ matchPair
    \/ showTable
    \/ \E v \in Thresholds : changeThreshold(v)

SpecRun == InitRun /\ [][NextRun]_vars

(***************************************************************************)
(* Properties                                                              *)
(***************************************************************************)
\* the multiset of the elements of a sequence
BagOf(s) == [x \in Range(s) |-> Cardinality({i \in 1..Len(s) : s[i] = x})]

InUnitRange(x) == NumLe(Num(0), x) /\ NumLe(x, Num(100))

\* C1 (SpecSim): calculateSimilarity(A, B) is 0 when A or B is empty and otherwise
\* 100 * |set(A) /\ set(B)| / |set(A) \/ set(B)|; it is the same for A with every
\* token repeated and B reordered.
C1_JaccardOfSets ==
    ret # <<>> =>
        LET A == args.tokensA
            B == args.tokensB
        IN  /\ (A = <<>> \/ B = <<>>) => ret[1] = Num(0)
            /\ (A # <<>> /\ B # <<>>) =>
                   ret[1] = Rat(100 * Cardinality(Range(A) \cap Range(B)),
                                Cardinality(Range(A) \cup Range(B)))
            /\ calculateSimilarity(A \o A, Reverse(B)) = ret[1]

\* a call on overlapping, different sets, one argument repeating a token
C1_Witness ==
    /\ ret # <<>>
    /\ Len(args.tokensA) > Cardinality(Range(args.tokensA))
    /\ Range(args.tokensA) \cap Range(args.tokensB) # {}
    /\ Range(args.tokensA) # Range(args.tokensB)
    /\ ret[1] = Rat(100, 3)

\* the pair of stored items (i, j) has an edge in the stored match list
HasEdge(i, j) ==
    \E k \in 1..Len(matches) :
        /\ matches[k].supplierId = suppliers[i].id
        /\ matches[k].marketId = markets[j].id

StoredScore(i, j) ==
    calculateSimilarity(suppliers[i].normalizedTokens, markets[j].normalizedTokens)

\* C2 (Spec): the match list of a run holds an edge for a pair of its items
\* exactly when the pair's similarity is strictly above 10.
C2_FloorIsStrict ==
    \A i \in 1..Len(suppliers) : \A j \in 1..Len(markets) :
        HasEdge(i, j) <=> NumGt(StoredScore(i, j), Num(10))

\* a finished run with a pair scoring exactly 10 and a pair scoring 100/9
C2_Witness ==
    /\ \E i \in 1..Len(suppliers) : \E j \in 1..Len(markets) :
           StoredScore(i, j) = Num(10) /\ ~HasEdge(i, j)
    /\ \E i \in 1..Len(suppliers) : \E j \in 1..Len(markets) :
           StoredScore(i, j) = Rat(100, 9) /\ HasEdge(i, j)

\* C3 (Spec): every stored edge names a stored supplier and a stored market item.
C3_EdgesResolve ==
    \A k \in 1..Len(matches) :
        /\ \E i \in 1..Len(suppliers) : suppliers[i].id = matches[k].supplierId
        /\ \E j \in 1..Len(markets) : markets[j].id = matches[k].marketId

\* edges are stored while the callback of a later run over other data is pending
C3_Witness ==
    /\ Len(matches) > 1
    /\ timers # <<>>
    /\ Head(timers).sups # suppliers
    /\ Head(timers).mkts # <<>>

\* C4 (SpecStats): calculateStats(p, []) is all zeros, and any result whose
\* count is 0 has every field zero.
C4_EmptySentinel ==
    ret # <<>> =>
        LET allZero == ret[1] = [min |-> Num(0), max |-> Num(0), avg |-> Num(0),
                                 count |-> 0, varianceFromAvg |-> Num(0),
                                 varianceFromMin |-> Num(0)]
        IN  /\ args.marketPrices = <<>> => allZero
            /\ ret[1].count = 0 => allZero

\* a call with a non-zero reference price and no prices
C4_Witness ==
    /\ ret # <<>>
    /\ args.marketPrices = <<>>
    /\ args.supplierPrice = Num(50)

RECURSIVE SumOf(_)
SumOf(L) == IF L = <<>> THEN Num(0) ELSE NumAdd(SumOf(SubSeq(L, 1, Len(L) - 1)), L[Len(L)])

\* C5 (SpecStats): on a non-empty list L, min and max are the least and greatest
\* element, avg is sum(L)/|L|, count is |L|, the variances are (p - avg)/avg*100
\* and (p - min)/min*100 (in IEEE arithmetic, so non-finite when the divisor is
\* 0); calculateStats(50, [40, 60]) is 40, 60, 50, 2, 0, 25.
C5_StatsOfPrices ==
    (ret # <<>> /\ args.marketPrices # <<>>) =>
        LET p    == args.supplierPrice
            L    == args.marketPrices
            r    == ret[1]
            mean == NumDiv(SumOf(L), Num(Len(L)))
        IN  /\ r.min \in Range(L) /\ \A x \in Range(L) : NumLe(r.min, x)
            /\ r.max \in Range(L) /\ \A x \in Range(L) : NumLe(x, r.max)
            /\ r.avg = mean
            /\ r.count = Len(L)
            /\ r.varianceFromAvg = NumMul(NumDiv(NumSub(p, mean), mean), Num(100))
            /\ r.varianceFromMin = NumMul(NumDiv(NumSub(p, r.min), r.min), Num(100))
            /\ (p = Num(50) /\ L = <<Num(40), Num(60)>>) =>
                   r = [min |-> Num(40), max |-> Num(60), avg |-> Num(50), count |-> 2,
                        varianceFromAvg |-> Num(0), varianceFromMin |-> Num(25)]

\* the call calculateStats(50, [40, 60]) has returned
C5_Witness ==
    /\ ret # <<>>
    /\ args.supplierPrice = Num(50)
    /\ args.marketPrices = <<Num(40), Num(60)>>
    /\ ret[1].varianceFromMin = Num(25)

\* C6 (SpecSim): calculateSimilarity(A, B) = calculateSimilarity(B, A).
C6_Symmetric ==
    ret # <<>> => ret[1] = calculateSimilarity(args.tokensB, args.tokensA)

\* a call on sequences of different lengths and different sets that overlap
C6_Witness ==
    /\ ret # <<>>
    /\ Len(args.tokensA) > Len(args.tokensB)
    /\ ~(Range(args.tokensB) \subseteq Range(args.tokensA))
    /\ ret[1] = Num(50)

\* C7 (SpecSim): calculateSimilarity(A, A) = 100 for every non-empty A.
C7_SelfSimilarity ==
    (ret # <<>> /\ args.tokensA = args.tokensB /\ args.tokensA # <<>>) =>
        ret[1] = Num(100)

\* a call on twice the same sequence, which repeats a token
C7_Witness ==
    /\ ret # <<>>
    /\ args.tokensA = args.tokensB
    /\ Cardinality(Range(args.tokensA)) = 2
    /\ Len(args.tokensA) = 3

\* every score over the bounded token sequences lies in [0, 100]
AllScoresInRange ==
    \A A \in TokenSeqs : \A B \in TokenSeqs : InUnitRange(calculateSimilarity(A, B))

\* C8 (Spec): calculateSimilarity lies in [0, 100], for all bounded token
\* sequences and for every pair of stored items, and every stored edge has a
\* confidence in (10, 100].
C8_ScoreRange ==
    /\ AllScoresInRange
    /\ \A i \in 1..Len(suppliers) : \A j \in 1..Len(markets) :
           InUnitRange(StoredScore(i, j))
    /\ \A k \in 1..Len(matches) :
           /\ NumGt(matches[k].confidence, Num(10))
           /\ NumLe(matches[k].confidence, Num(100))

\* the stored list holds an edge of confidence 100 and one just above the floor
C8_Witness ==
    /\ \E k \in 1..Len(matches) : matches[k].confidence = Num(100)
    /\ \E k \in 1..Len(matches) : matches[k].confidence = Rat(100, 9)

RuleKeys == {NORMALIZATION_RULES[i][1] : i \in 1..Len(NORMALIZATION_RULES)}

\* a token made of digits followed by a unit abbreviation, written apart
RECURSIVE detachUnit(_, _)
detachUnit(ds, rest) ==
    IF rest # <<>> /\ Head(rest) \in Digits
    THEN detachUnit(Append(ds, Head(rest)), Tail(rest))
    ELSE IF ds # <<>> /\ rest \in RuleKeys THEN ds \o <<" ">> \o rest
    ELSE ds \o rest

RECURSIVE joinDetached(_)
joinDetached(tokens) ==
    IF tokens = <<>> THEN <<>>
    ELSE detachUnit(<<>>, Head(tokens)) \o <<" ">> \o joinDetached(Tail(tokens))

\* the text in lower case, punctuation turned into spaces, units written apart
\* from their numbers
Separated(text) ==
    joinDetached(SelectSeq(split(replaceSpecial(toLowerCase(text))),
                           LAMBDA t : Len(t) > 0))

\* C10 (SpecNorm): a text and the same text in lower case, with its punctuation
\* turned into spaces and its unit abbreviations detached from their numbers,
\* normalize to the same multiset; so do "Super-Glue 500ML" and
\* "super glue 500 ml".
C10_AttachedUnitSameMultiset ==
    (ret # <<>> /\ args.text # Undefined) =>
        /\ BagOf(ret[1]) = BagOf(normalizeText(Separated(args.text)))
        /\ args.text = SuperGlueAttached =>
               BagOf(ret[1]) = BagOf(normalizeText(SuperGlueSeparated))

\* the tokens of a text after lower-casing, cleaning and splitting, in text order
TokensOf(text) ==
    IF text = Undefined THEN <<>>
    ELSE SelectSeq(split(replaceSpecial(toLowerCase(text))), LAMBDA t : Len(t) > 0)

\* what the expansion step makes of the tokens that are no stop words, in text order
KeptOf(text) ==
    LET nonStop == SelectSeq(TokensOf(text), LAMBDA t : t \notin STOP_WORDS)
    IN  [i \in 1..Len(nonStop) |-> expandToken(nonStop[i])]

\* C11 (SpecNorm): the result of normalizeText holds no stop word, and holds one
\* element for every other token of the text (the token or what the expansion
\* step makes of it); "Premium Quality Valve" gives valve without premium and
\* quality.
C11_StopWordsRemoved ==
    ret # <<>> =>
        /\ \A i \in 1..Len(ret[1]) : ret[1][i] \notin STOP_WORDS
        /\ BagOf(ret[1]) = BagOf(KeptOf(args.text))
        /\ args.text = PremiumQualityValve =>
               /\ <<"v", "a", "l", "v", "e">> \in Range(ret[1])
               /\ <<"p", "r", "e", "m", "i", "u", "m">> \notin Range(ret[1])
               /\ <<"q", "u", "a", "l", "i", "t", "y">> \notin Range(ret[1])

\* "Premium Quality Valve" has been normalized to the one token valve
C11_Witness ==
    /\ ret # <<>>
    /\ args.text = PremiumQualityValve
    /\ ret[1] = << <<"v", "a", "l", "v", "e">> >>

\* the expansion the table gives a key
ExpansionOf(key) ==
    NORMALIZATION_RULES[CHOOSE i \in 1..Len(NORMALIZATION_RULES) :
                           NORMALIZATION_RULES[i][1] = key][2]

\* C12 (SpecNorm): the expansion step replaces a token only when the whole token
\* is one of the seven keys; every other token passes through as the same string.
C12_OnlyWholeKeysExpand ==
    ret # <<>> =>
        \A t \in Range(TokensOf(args.text)) :
            /\ t \in RuleKeys => expandToken(t) = ExpansionOf(t)
            /\ t \notin RuleKeys => expandToken(t) = t

\* the text has no letter and no digit
NoAlphanumeric(text) ==
    \A i \in 1..Len(text) :
        text[i] \notin Range(LowerLetters) \cup Range(UpperLetters) \cup Digits

\* C13 (SpecNorm): normalizeText returns the empty sequence for an absent or empty
\* text, for a text of whitespace and punctuation only, and for a text whose
\* tokens are all stop words.
C13_EmptyResult ==
    ret # <<>> =>
        /\ args.text = Undefined => ret[1] = <<>>
        /\ (args.text # Undefined /\ NoAlphanumeric(args.text)) => ret[1] = <<>>
        /\ (\A t \in Range(TokensOf(args.text)) : t \in STOP_WORDS) => ret[1] = <<>>

\* a non-empty text of stop words, whitespace and punctuation has been normalized
C13_Witness ==
    /\ ret # <<>>
    /\ args.text = StopWordsOnly
    /\ ret[1] = <<>>

SameClass(a, b) == hasDigit(a) = hasDigit(b) /\ Len(a) = Len(b)

\* C14 (SpecNorm): in the result every token with a digit precedes every token
\* without, within each of the two groups no token precedes a longer one, and
\* tokens of the same group and length keep the order they had in the text.
C14_SortedAndStable ==
    ret # <<>> =>
        LET r == ret[1]
        IN  /\ \A i \in 1..Len(r) : \A j \in 1..Len(r) :
                   i < j =>
                       /\ ~(hasDigit(r[j]) /\ ~hasDigit(r[i]))
                       /\ hasDigit(r[i]) = hasDigit(r[j]) => Len(r[i]) >= Len(r[j])
            /\ \A x \in Range(r) :
                   SelectSeq(r, LAMBDA y : SameClass(x, y))
                       = SelectSeq(KeptOf(args.text), LAMBDA y : SameClass(x, y))

\* a text with several tokens of one length in each group has been normalized
C14_Witness ==
    /\ ret # <<>>
    /\ args.text = MixedTokens
    /\ ret[1] = << <<"7", "a">>, <<"1", "2">>, <<"x", "9">>, <<"p", "l", "u", "g">>,
                   <<"k", "g", "s">>, <<"b", "b">>, <<"a", "a">> >>

\* what IEEE division by zero gives for (p - 0) / 0 * 100 with p >= 0
ZeroDivided(p) == IF p = Num(0) THEN NaN ELSE PosInf

\* C20 (SpecStats): a non-empty price list whose minimum is 0 still gives count,
\* min, max and avg of the list, and varianceFromMin is the non-finite result of
\* the division by zero (infinite, or NaN for a supplier price of 0), not 0; when
\* the mean is 0 the same holds of varianceFromAvg.
C20_ZeroPriceNotSpecialCased ==
    (ret # <<>> /\ args.marketPrices # <<>> /\ Num(0) \in Range(args.marketPrices)) =>
        LET p == args.supplierPrice
            L == args.marketPrices
            r == ret[1]
        IN  /\ r.count = Len(L)
            /\ r.min = Num(0)
            /\ r.max \in Range(L) /\ \A x \in Range(L) : NumLe(x, r.max)
            /\ NumMul(r.avg, Num(Len(L))) = SumOf(L)
            /\ ~IsFinite(r.varianceFromMin)
            /\ r.varianceFromMin = ZeroDivided(p)
            /\ (\A x \in Range(L) : x = Num(0)) =>
                   /\ r.avg = Num(0)
                   /\ ~IsFinite(r.varianceFromAvg)
                   /\ r.varianceFromAvg = ZeroDivided(p)

\* calculateStats(10, [0, 0]) has returned: both divisors are 0, both variances infinite
C20_Witness ==
    /\ ret # <<>>
    /\ args.supplierPrice = Num(10)
    /\ args.marketPrices = <<Num(0), Num(0)>>
    /\ ret[1].count = 2
    /\ ret[1].varianceFromMin = PosInf
    /\ ret[1].varianceFromAvg = PosInf

\* the comparison table is on the screen
TableShown == activeTab = "ANALYSIS" /\ Len(suppliers) > 0

\* the edges of a reference item at or above the current threshold, in list order
EdgesShownOf(sup) ==
    SelectSeq(matches, LAMBDA m : m.supplierId = sup.id
                                  /\ NumGe(m.confidence, Num(confidenceThreshold)))

\* the price of the observed item an edge points to
PriceOn(m) == (CHOOSE mk \in Range(markets) : mk.id = m.marketId).price

\* C19 (Spec): whenever the comparison table is shown it has one row per reference
\* item, and the statistics in the row are calculateStats of the item's price and
\* the prices of the observed items on its edges at or above the current
\* threshold; no row computed for another threshold or match list is visible, and
\* nothing is kept while the table is not shown.
C19_StatsAreCurrent ==
    /\ TableShown =>
           /\ memo # <<>>
           /\ Len(memo[1].rows) = Len(suppliers)
           /\ \A k \in 1..Len(suppliers) :
                  LET row   == memo[1].rows[k]
                      edges == EdgesShownOf(suppliers[k])
                  IN  /\ ~row.threw
                      /\ row.supplier = suppliers[k]
                      /\ BagOf(row.productMatches) = BagOf(edges)
                      /\ row.stats = calculateStats(suppliers[k].price,
                                         [e \in 1..Len(edges) |-> PriceOn(edges[e])])
    /\ ~TableShown => memo = <<>>

\* the table is shown at threshold 100 and a reference item with three edges has
\* statistics over one price
C19_Witness ==
    /\ TableShown
    /\ confidenceThreshold = 100
    /\ memo # <<>>
    /\ \E k \in 1..Len(suppliers) :
           /\ memo[1].rows[k].stats.count = 1
           /\ Len(SelectSeq(matches, LAMBDA m : m.supplierId = suppliers[k].id)) = 3

\* the loops of the matching run are over
RunMatched == run.pc \in {"matched", "table"}

\* C15 (SpecRun): from one reference item "Standard Valve" at 10 and the observed
\* items "Valve Standard" at 11 and "Unrelated Widget" at 999, ingestion and
\* matching give exactly one edge, to the first observed item, with a score
\* above 50; at threshold 50 the table has count 1, min = max = avg = 11 and
\* varianceFromAvg = (10 - 11) / 11 * 100.
C15_ValveEndToEnd ==
    (/\ args.supplierCols = ValveSheet.supplierCols
     /\ args.marketCols = ValveSheet.marketCols
     /\ run.pc = "table") =>
        /\ Len(run.sups) = 1 /\ run.sups[1].price = Num(10)
        /\ Len(run.mkts) = 2
        /\ run.mkts[1].price = Num(11) /\ run.mkts[2].price = Num(999)
        /\ Len(run.results) = 1
        /\ run.results[1].supplierId = run.sups[1].id
        /\ run.results[1].marketId = run.mkts[1].id
        /\ NumGt(run.results[1].confidence, Num(50))
        /\ run.threshold = 50 =>
               /\ Len(run.rows) = 1
               /\ ~run.rows[1].threw
               /\ run.rows[1].stats.count = 1
               /\ run.rows[1].stats.min = Num(11)
               /\ run.rows[1].stats.max = Num(11)
               /\ run.rows[1].stats.avg = Num(11)
               /\ run.rows[1].stats.varianceFromAvg = Rat(-100, 11)

\* the valve data has been ingested and matched and the threshold moved to 50
C15_Witness ==
    /\ args.supplierCols = ValveSheet.supplierCols
    /\ args.marketCols = ValveSheet.marketCols
    /\ run.pc = "table"
    /\ run.threshold = 50
    /\ run.rows[1].stats.count = 1

\* how many times the pair (i, j) has been scored
TimesScored(i, j) == Cardinality({k \in 1..Len(run.scored) : run.scored[k] = <<i, j>>})

\* C16 (SpecRun): a matching run over R reference and O observed items calls
\* calculateSimilarity exactly once for each pair, R * O times in all, whether
\* or not the pair makes an edge, also when R or O is 0; while the run is under
\* way no pair has been scored twice.
C16_EveryPairOnce ==
    LET R == Len(run.sups)
        O == Len(run.mkts)
    IN  /\ \A k \in 1..Len(run.scored) :
               /\ run.scored[k][1] \in 1..R
               /\ run.scored[k][2] \in 1..O
               /\ TimesScored(run.scored[k][1], run.scored[k][2]) = 1
        /\ RunMatched =>
               /\ Len(run.scored) = R * O
               /\ \A i \in 1..R : \A j \in 1..O : TimesScored(i, j) = 1

\* a run over two reference and three observed items is over; two of its six
\* pairs made no edge
C16_Witness ==
    /\ RunMatched
    /\ Len(run.sups) = 2
    /\ Len(run.mkts) = 3
    /\ Len(run.scored) = 6
    /\ Len(run.results) = 4

\* the position of the item with the given id in a collection
IndexOf(items, id) == CHOOSE k \in 1..Len(items) : items[k].id = id

\* C17 (SpecRun): the edges of a run are in row-major order: of two edges the
\* earlier one has the earlier reference item, or the same reference item and
\* the earlier observed item; the order does not follow the score.
C17_RowMajorOrder ==
    \A k \in 1..Len(run.results) : \A l \in 1..Len(run.results) :
        k < l =>
            LET e1 == run.results[k]
                e2 == run.results[l]
                s1 == IndexOf(run.sups, e1.supplierId)
                s2 == IndexOf(run.sups, e2.supplierId)
            IN  \/ s1 < s2
                \/ /\ s1 = s2
                   /\ IndexOf(run.mkts, e1.marketId) < IndexOf(run.mkts, e2.marketId)

\* a finished run whose edge list is not in descending order of score
C17_Witness ==
    /\ RunMatched
    /\ Len(run.results) = 4
    /\ NumLt(run.results[1].confidence, run.results[2].confidence)
    /\ NumGt(run.results[3].confidence, run.results[4].confidence)

\* how many times normalizeText has been called for the item with the given id
TimesNormalized(id) ==
    Cardinality({k \in 1..Len(run.normalized) : run.normalized[k] = id})

\* one call per item created so far, and no other call
OncePerItem ==
    /\ Len(run.normalized) = Len(run.sups) + Len(run.mkts)
    /\ \A k \in 1..Len(run.sups) : TimesNormalized(run.sups[k].id) = 1
    /\ \A k \in 1..Len(run.mkts) : TimesNormalized(run.mkts[k].id) = 1

\* a step keeps the tokens of every item there is, and a step of the matching
\* run or of the table makes no call of normalizeText and no item
TokensKept ==
    /\ \A k \in 1..Len(run.sups) :
           /\ k <= Len(run'.sups)
           /\ run'.sups[k].id = run.sups[k].id
           /\ run'.sups[k].normalizedTokens = run.sups[k].normalizedTokens
    /\ \A k \in 1..Len(run.mkts) :
           /\ k <= Len(run'.mkts)
           /\ run'.mkts[k].id = run.mkts[k].id
           /\ run'.mkts[k].normalizedTokens = run.mkts[k].normalizedTokens
    /\ run.pc \in {"matching", "matched", "table"} =>
           /\ run'.normalized = run.normalized
           /\ run'.sups = run.sups
           /\ run'.mkts = run.mkts

\* C18 (SpecRun): across ingestion, the matching run and the threshold changes,
\* normalizeText is called exactly once for each item created, all of it at
\* ingestion: the matching run, a threshold change and the aggregation call it
\* zero times, and the normalizedTokens of an item never change.
C18_NormalizedOnceAtIngestion == [](OncePerItem) /\ [][TokensKept]_vars

\* five items were created, their six pairs scored, and the threshold moved twice
C18_Witness ==
    /\ run.pc = "table"
    /\ run.changes = MaxThresholdChanges
    /\ Len(run.normalized) = 5
    /\ Len(run.scored) = 6
    /\ Len(run.aggregated) = 2 * (1 + MaxThresholdChanges)

\* what zipData hands to the matcher for the columns of this run
Ingested == zipData(args.supplierCols, args.marketCols, args.clock)

\* C21 (SpecRun): the matching run only reads its two collections: in every state
\* from the first pair scored to the table, the reference and the observed
\* collection are the ones ingestion handed over, item for item with the same
\* ids, prices and normalizedTokens, so no call of calculateSimilarity has
\* changed a token sequence it was given.
C21_InputsOnlyRead ==
    run.pc \in {"matching", "matched", "table"} =>
        /\ run.sups = Ingested.sups
        /\ run.mkts = Ingested.mkts

\* all six pairs of two reference and three observed items have been scored and
\* four edges made
C21_Witness ==
    /\ run.pc = "matched"
    /\ Len(run.scored) = 6
    /\ Len(run.results) = 4
    /\ run.sups = Ingested.sups
    /\ Len(run.sups) = 2
    /\ run.sups[1].normalizedTokens # <<>>

\* the items of a collection with the given id
WithId(items, id) == {k \in 1..Len(items) : items[k].id = id}

\* C23 (SpecRun): in the supplier collection of one ingestion no two items have
\* the same id, and neither in the market collection, skipped blank rows or not;
\* every edge names exactly one supplier and exactly one market.
C23_IdsUnique ==
    /\ \A k \in 1..Len(run.sups) : WithId(run.sups, run.sups[k].id) = {k}
    /\ \A k \in 1..Len(run.mkts) : WithId(run.mkts, run.mkts[k].id) = {k}
    /\ \A e \in 1..Len(run.results) :
           /\ Cardinality(WithId(run.sups, run.results[e].supplierId)) = 1
           /\ Cardinality(WithId(run.mkts, run.results[e].marketId)) = 1

\* an ingestion that skipped blank rows is over: two suppliers from three rows,
\* two markets from three rows, and an edge between them
C23_Witness ==
    /\ args.supplierCols = BlankSheet.supplierCols
    /\ args.marketCols = BlankSheet.marketCols
    /\ run.pc \in {"matched", "table"}
    /\ Len(run.sups) = 2
    /\ Len(run.mkts) = 2
    /\ Len(run.results) >= 1

\* the pairs of stored items, row by row
StoredPairs ==
    [k \in 1..(Len(suppliers) * Len(markets)) |->
        <<((k - 1) \div Len(markets)) + 1, ((k - 1) % Len(markets)) + 1>>]

\* the edges of the stored collections: one for each pair scoring above 10
EdgesOfStored ==
    LET above == SelectSeq(StoredPairs,
                           LAMBDA p : NumGt(StoredScore(p[1], p[2]), Num(10)))
    IN  [k \in 1..Len(above) |->
            [supplierId |-> suppliers[above[k][1]].id,
             marketId   |-> markets[above[k][2]].id,
             confidence |-> StoredScore(above[k][1], above[k][2])]]

\* C24 (Spec): in every reachable state the stored match list is the result of
\* matching the stored suppliers against the stored markets; the three are
\* replaced together from one run, also while another run is pending, and are
\* emptied together.
C24_MatchesOfStored == matches = EdgesOfStored

\* the four edges of one run are stored with its collections while the callback
\* of a run over other data is pending
C24_Witness ==
    /\ Len(matches) = 4
    /\ Len(suppliers) = 2
    /\ Len(markets) = 3
    /\ activeTab = "INPUT"
    /\ Len(timers) = 1
    /\ Head(timers).sups # suppliers

\* C26 (Spec): isProcessing is true exactly when a run started by performMatching
\* has not completed yet, so with two runs under way it stays true until the
\* last has completed.
C26_ProcessingIffPending == isProcessing <=> (timers # <<>>)

\* the edges of the run's list that the threshold t selects for a supplier
SelectedAt(sup, t) == {k \in 1..Len(run.results) : showsMatch(run.results[k], sup, t)}

\* the count of the statistics the table computes for a supplier at threshold t
CountAt(sup, t) == viewRow(sup, run.mkts, run.results, t).stats.count

\* C27 (SpecRun): for the match list of a finished run and every supplier, over
\* the whole range 0..100 of the input: the count of the statistics is the
\* number of edges the threshold selects, raising the threshold by one selects
\* a subset of the edges (so the count never grows), and every threshold up to
\* 10 selects all edges of the supplier; the count the table shows is the one
\* of its threshold.
C27_CountMonotone ==
    RunMatched =>
        \A i \in 1..Len(run.sups) :
            LET sup == run.sups[i]
                own == {k \in 1..Len(run.results) : run.results[k].supplierId = sup.id}
            IN  /\ \A t \in 0..100 : CountAt(sup, t) = Cardinality(SelectedAt(sup, t))
                /\ \A t \in 0..99 : SelectedAt(sup, t + 1) \subseteq SelectedAt(sup, t)
                /\ \A t \in 0..10 : SelectedAt(sup, t) = own
                /\ run.pc = "table" =>
                       run.rows[i].stats.count = CountAt(sup, run.threshold)

\* the table is at threshold 100 and shows one match for a supplier with three
\* edges, of which the threshold 70 selects two
C27_Witness ==
    /\ run.pc = "table"
    /\ run.threshold = 100
    /\ \E i \in 1..Len(run.sups) :
           /\ run.rows[i].stats.count = 1
           /\ CountAt(run.sups[i], 70) = 2
           /\ CountAt(run.sups[i], 10) = 3

\* what a run can be started with
Payloads ==
    {zipData(sheet.supplierCols, sheet.marketCols, clock) :
         sheet \in Sheets, clock \in 0..MaxClock}

\* the run over the collections d has completed
Completed(d) ==
    /\ suppliers = d.sups
    /\ markets = d.mkts
    /\ matches = EdgesOfStored
    /\ ~isProcessing
    /\ activeTab = "ANALYSIS"

\* C22 (SpecLive): every run that performMatching has started is followed by a
\* state in which its suppliers, markets and edges are stored, isProcessing is
\* false and the tab is ANALYSIS, provided scheduled callbacks are run; no tab
\* switch, threshold change, reset or further run prevents it.
C22_StartedRunCompletes ==
    \A d \in Payloads : (\E k \in 1..Len(timers) : timers[k] = d) ~> Completed(d)

\* a run is second in the queue, behind a run over other data, on a host that
\* holds data of an earlier run
C22_Witness ==
    /\ Len(timers) = 2
    /\ timers[1] # timers[2]
    /\ timers[2].sups # <<>>
    /\ Len(suppliers) > 0
    /\ suppliers # timers[2].sups

\* C25 (SpecReset): from reset until the next performMatching the stored
\* suppliers, markets and matches are empty and the tab is INPUT; a run
\* started before the reset does not repopulate them.
C25_EmptyAfterReset ==
    cleared =>
        /\ suppliers = <<>>
        /\ markets = <<>>
        /\ matches = <<>>
        /\ activeTab = "INPUT"

\* the three consumers have computed their statistics
AllComputed == ret.table # <<>> /\ ret.dashboard # <<>> /\ ret.export # <<>>

\* C28 (SpecView): for one stored state and threshold the table, the dashboard
\* and the export compute the same statistics for every reference item, the
\* mean included as the engine computes it: the order in which a consumer
\* hands the prices to calculateStats makes no difference.
C28_ConsumersAgree ==
    AllComputed =>
        \A k \in 1..Len(ret.table[1]) :
            LET t == ret.table[1][k]
                x == ret.export[1][k]
            IN  /\ x.stats = t.stats
                /\ x.avg = t.avg
                /\ \A j \in 1..Len(ret.dashboard[1]) :
                       LET d == ret.dashboard[1][j]
                       IN  d.supplier.id = t.supplier.id =>
                               d.stats = t.stats /\ d.avg = t.avg

====
